---- MODULE Spec2Model ----
(***************************************************************************)
(* Model of the tool / placement interaction state machine of the physics *)
(* playground (src/src/main.rs, src/src/ui.rs).  One frame of the app is   *)
(* the Update schedule (systems in any order the `.after` constraints     *)
(* allow, their Commands deferred to the end of the schedule) followed by *)
(* the PostUpdate schedule (physics, handle_input, then its Commands).    *)
(*                                                                         *)
(* Coordinates are integers.  A rotation is kept as the direction vector  *)
(* the entity's local +X axis points along (<<1,0>> is the identity).     *)
(***************************************************************************)
EXTENDS Integers, Naturals, Sequences, FiniteSets, TLC

VARIABLES
    mode,              \* the Mode resource (main.rs:207)
    zCounter,          \* the ZCounter resource, in steps of 0.01 (main.rs:28)
    mouse,             \* Mouse.position (main.rs:73)
    ents,              \* the shape entities alive, id -> components
    nextId,            \* the next entity id commands.spawn reserves
    toolEvents,        \* Events<ToolEvent>: the events still buffered
    toolRead,          \* how many of them handle_tool_events has read
    commandEvents,     \* Events<CommandEvent>: the events still buffered
    commandRead,       \* how many of them handle_command_events has read
    commandEventCount, \* number of command events ever sent
    leftPressed,       \* just_pressed(MouseButton::Left) as read this frame
    cmdsTool,          \* Commands queued by handle_tool_events
    cmdsCommand,       \* Commands queued by handle_command_events
    cmdsInput,         \* Commands queued by handle_input
    rapier,            \* the entities whose collider the physics world holds
    stage,             \* the schedule in progress: "Update" or "PostUpdate"
    ran,               \* the systems of that schedule that have run
    applyOrder,        \* whose Update commands the schedule applies first
    panicked,          \* a system has panicked; the app is gone
    balls,             \* the particles alive, id -> translation (balls.rs:28)
    nextBall,          \* the next particle id commands.spawn reserves
    cmdsBalls,         \* Commands queued by spawn_balls
    cmdsSweep          \* Commands queued by despawn_outside_world

vars == <<mode, zCounter, mouse, ents, nextId, toolEvents, toolRead,
          commandEvents, commandRead, commandEventCount, leftPressed,
          cmdsTool, cmdsCommand, cmdsInput, rapier, stage, ran, applyOrder,
          panicked, balls, nextBall, cmdsBalls, cmdsSweep>>

\* the state of the particle systems
ballVars == <<balls, nextBall, cmdsBalls, cmdsSweep>>

\* the state that only the interaction systems touch
toolVars == <<mode, zCounter, mouse, nextId, toolEvents, toolRead, commandEvents,
              commandRead, commandEventCount, leftPressed, cmdsTool, cmdsCommand,
              cmdsInput, rapier, applyOrder>>

----------------------------------------------------------------------------
(* Bounds *)

\* total number of shape entities ever spawned in one run
MaxEnts == 2
\* total number of command events ever sent in one run
MaxCommandEvents == 4

----------------------------------------------------------------------------
(* Types of the program *)

Tool == {"Box", "ForceField"}

ToolOrder == <<"Box", "ForceField">>

\* The world positions the pointer is sampled at, even so that midpoints are
\* integers; <<0,0>> is also the position of a cursor outside the window.  A
\* box drawn from <<0,0>> to <<4,2>> has <<2,2>> on an edge and both end
\* points on corners; turned a quarter it has <<2,2>> in its centre region.
Points == {<<0, 0>>, <<2, 2>>, <<4, 2>>}

NoEntity == 0

\* Modifying variants; an entity without the component carries NoModifying
NoModifying == [tag |-> "None"]

Placing == [tag |-> "Placing"]

Scaling(start) == [tag |-> "Scaling", start |-> start]

Moving(start) == [tag |-> "Moving", start |-> start]

Rotating(start) == [tag |-> "Rotating", start |-> start]

HasModifying(e) == ents[e].modifying.tag # "None"

Abs(x) == IF x < 0 THEN -x ELSE x

\* the Update systems that run after calculate_mouse_position
AfterMouse == {"handle_left_click", "set_hover", "move_towards_mouse", "move_to_mouse"}

UpdateSystems == {"calculate_mouse_position", "update_ui", "handle_tool_events",
                  "handle_command_events", "scale", "rotate"} \cup AfterMouse

PostUpdateSystems == {"physics", "handle_input"}

\* The schedule leaves the order of the Update systems open except for
\* `.after`.  Two systems whose accesses are disjoint commute, so a frame is
\* explored up to commutation: the systems run in groups, each group holding
\* systems whose relative order can show (update_ui sends what
\* handle_tool_events reads; scale and rotate read the pointer that
\* calculate_mouse_position writes; handle_left_click reads the hover that
\* set_hover writes and sends what handle_command_events reads), in any order
\* within the group.
Groups ==
    <<{"update_ui", "handle_tool_events"},
      {"scale", "rotate", "calculate_mouse_position"},
      {"set_hover", "handle_left_click", "handle_command_events"},
      {"move_to_mouse", "move_towards_mouse"}>>

GroupOf(sys) == CHOOSE k \in 1..Len(Groups) : sys \in Groups[k]

EarlierGroupsRan(sys) == \A k \in 1..(GroupOf(sys) - 1) : Groups[k] \subseteq ran

CanRun(sys) ==
    /\ ~panicked
    /\ stage = "Update"
    /\ sys \notin ran
    /\ (sys \in AfterMouse => "calculate_mouse_position" \in ran)
    /\ EarlierGroupsRan(sys)

CanRunPost(sys) ==
    /\ ~panicked
    /\ stage = "PostUpdate"
    /\ sys \notin ran

\* the environment presses a tool key or button only while the run can
\* still spawn the entity it asks for
UnreadToolEvents == SubSeq(toolEvents, toolRead + 1, Len(toolEvents))

UnreadCommandEvents == SubSeq(commandEvents, commandRead + 1, Len(commandEvents))

SpawnBudget == MaxEnts - (nextId - 1) - Len(UnreadToolEvents)

----------------------------------------------------------------------------
(* Geometry: Transform / GlobalTransform as [pos, scale, rot] *)

Dot(a, b) == a[1] * b[1] + a[2] * b[2]

Perp(v) == <<-v[2], v[1]>>

Sub(a, b) == <<a[1] - b[1], a[2] - b[2]>>

IdentityRot == <<1, 0>>

\* Transform::from_xyz(0.0, 0.0, z).with_scale(Vec3::splat(10.))
SpawnScale == 10

SpawnTransform == [pos |-> <<0, 0>>, scale |-> <<SpawnScale, SpawnScale>>, rot |-> IdentityRot]

\* GlobalTransform::default(), until the first transform propagation
IdentityTransform == [pos |-> <<0, 0>>, scale |-> <<1, 1>>, rot |-> IdentityRot]

\* the matrix of the transform has an inverse with finite entries
Invertible(g) == g.scale[1] # 0 /\ g.scale[2] # 0 /\ Dot(g.rot, g.rot) # 0

\* mutant: the centre region reaches the border of the shape (0.5)
XIsCenter_WholeWidth(g, p) ==
    /\ Invertible(g)
    /\ 4 * Dot(Sub(p, g.pos), g.rot) * Dot(Sub(p, g.pos), g.rot)
          < Dot(g.rot, g.rot) * g.scale[1] * g.scale[1]

\* |local.x| < 0.45 for local = inverse(g) * p, 0.45 = 9/20, compared squared
XIsCenter(g, p) ==
    /\ Invertible(g)
    /\ 400 * Dot(Sub(p, g.pos), g.rot) * Dot(Sub(p, g.pos), g.rot)
          < 81 * Dot(g.rot, g.rot) * g.scale[1] * g.scale[1]

YIsCenter(g, p) ==
    /\ Invertible(g)
    /\ 400 * Dot(Sub(p, g.pos), Perp(g.rot)) * Dot(Sub(p, g.pos), Perp(g.rot))
          < 81 * Dot(g.rot, g.rot) * g.scale[2] * g.scale[2]

HoverPosition(g, p) ==
    IF XIsCenter(g, p) /\ YIsCenter(g, p) THEN "Center"
    ELSE IF XIsCenter(g, p) \/ YIsCenter(g, p) THEN "Edge"
    ELSE "Corner"

\* Collider::cuboid(0.5, 0.5) under the transform g contains the point p
ColliderContains(g, p) ==
    /\ Dot(g.rot, g.rot) # 0
    /\ 4 * Dot(Sub(p, g.pos), g.rot) * Dot(Sub(p, g.pos), g.rot)
          <= Dot(g.rot, g.rot) * g.scale[1] * g.scale[1]
    /\ 4 * Dot(Sub(p, g.pos), Perp(g.rot)) * Dot(Sub(p, g.pos), Perp(g.rot))
          <= Dot(g.rot, g.rot) * g.scale[2] * g.scale[2]

----------------------------------------------------------------------------
(* Commands: deferred world mutations, applied in order at the end of the  *)
(* schedule.  A world is [ents, mode, panicked].                           *)

SpawnCmd(id, solid, z) == [op |-> "Spawn", entity |-> id, solid |-> solid, z |-> z]

InsertModifyingCmd(e, m) == [op |-> "InsertModifying", entity |-> e, modifying |-> m]

RemoveModifyingCmd(e) == [op |-> "RemoveModifying", entity |-> e]

InsertCmd(e, what) == [op |-> "Insert", entity |-> e, component |-> what]

DespawnCmd(e) == [op |-> "Despawn", entity |-> e]

InsertModeCmd(m) == [op |-> "InsertMode", mode |-> m]

NewEntity(solid, z) ==
    [solid |-> solid, modifying |-> Placing, hover |-> "None", z |-> z,
     transform |-> SpawnTransform, gt |-> IdentityTransform,
     collider |-> FALSE, body |-> "None", sensor |-> FALSE, vel |-> <<0, 0>>]

InsertComponent(ent, what) ==
    CASE what = "Velocity" -> [ent EXCEPT !.vel = <<0, 0>>]
      [] what = "Collider" -> [ent EXCEPT !.collider = TRUE]
      [] what = "RigidBody" -> [ent EXCEPT !.body = "KinematicVelocityBased"]
      [] what = "Sensor" -> [ent EXCEPT !.sensor = TRUE]

ApplyCmd(w, c) ==
    IF w.panicked THEN w
    ELSE CASE c.op = "Spawn" ->
                [w EXCEPT !.ents = [i \in DOMAIN w.ents \cup {c.entity} |->
                     IF i = c.entity THEN NewEntity(c.solid, c.z) ELSE w.ents[i]]]
           [] c.op = "InsertMode" -> [w EXCEPT !.mode = c.mode]
           [] c.op = "InsertModifying" ->
                IF c.entity \in DOMAIN w.ents
                THEN [w EXCEPT !.ents[c.entity].modifying = c.modifying]
                ELSE [w EXCEPT !.panicked = TRUE]
           [] c.op = "RemoveModifying" ->
                IF c.entity \in DOMAIN w.ents
                THEN [w EXCEPT !.ents[c.entity].modifying = NoModifying]
                ELSE w
           [] c.op = "Insert" ->
                IF c.entity \in DOMAIN w.ents
                THEN [w EXCEPT !.ents[c.entity] = InsertComponent(w.ents[c.entity], c.component)]
                ELSE [w EXCEPT !.panicked = TRUE]
           [] c.op = "Despawn" ->
                [w EXCEPT !.ents = [i \in DOMAIN w.ents \ {c.entity} |-> w.ents[i]]]

RECURSIVE ApplyCmds(_, _)
ApplyCmds(w, cs) ==
    IF cs = <<>> THEN w ELSE ApplyCmds(ApplyCmd(w, Head(cs)), Tail(cs))

World == [ents |-> ents, mode |-> mode, panicked |-> panicked]

----------------------------------------------------------------------------
(* Queries iterate entities in ascending id order *)

MinOf(S) == CHOOSE x \in S : \A y \in S : x <= y

RECURSIVE SeqOfSet(_)
SeqOfSet(S) == IF S = {} THEN <<>> ELSE <<MinOf(S)>> \o SeqOfSet(S \ {MinOf(S)})

RECURSIVE Concat(_)
Concat(ss) == IF ss = <<>> THEN <<>> ELSE Head(ss) \o Concat(Tail(ss))

\* Query<.., With<Modifying>>
ModifyingQuery == {e \in DOMAIN ents : HasModifying(e)}

\* Query<(&mut Hoverable, Entity, &GlobalTransform), With<Collider>>
ColliderQuery == {e \in DOMAIN ents : ents[e].collider}

----------------------------------------------------------------------------
(* Update systems *)

calculate_mouse_position ==
    /\ CanRun("calculate_mouse_position")
    /\ \E p \in Points : mouse' = p
    /\ ran' = ran \cup {"calculate_mouse_position"}
    /\ UNCHANGED <<mode, zCounter, ents, nextId, toolEvents, toolRead, commandEvents,
                   commandRead, commandEventCount, leftPressed, cmdsTool, cmdsCommand,
                   cmdsInput, rapier, stage, applyOrder, panicked>>
    /\ UNCHANGED ballVars

\* the entities the point query reports that the system's query also holds
HoverCandidates == {e \in ColliderQuery \cap rapier : ColliderContains(ents[e].gt, mouse)}

\* mutant: the scan keeps the lowest z
HighestEntities_Lowest ==
    {e \in HoverCandidates : \A o \in HoverCandidates : ents[e].z <= ents[o].z}

\* the candidates the scan for the highest z can end on
HighestEntities == {e \in HoverCandidates : \A o \in HoverCandidates : ents[o].z <= ents[e].z}

\* mutant: every collider under the pointer is classified
HoverAfter_AllCandidates(e, highest) ==
    IF e \notin ColliderQuery THEN ents[e].hover
    ELSE IF e \in HoverCandidates THEN HoverPosition(ents[e].gt, mouse)
    ELSE "None"

HoverAfter(e, highest) ==
    IF e \notin ColliderQuery THEN ents[e].hover
    ELSE IF e = highest THEN HoverPosition(ents[e].gt, mouse)
    ELSE "None"

set_hover ==
    /\ CanRun("set_hover")
    /\ \E highest \in (IF HighestEntities = {} THEN {NoEntity} ELSE HighestEntities) :
          ents' = [e \in DOMAIN ents |-> [ents[e] EXCEPT !.hover = HoverAfter(e, highest)]]
    /\ ran' = ran \cup {"set_hover"}
    /\ UNCHANGED <<mode, zCounter, mouse, nextId, toolEvents, toolRead, commandEvents,
                   commandRead, commandEventCount, leftPressed, cmdsTool, cmdsCommand,
                   cmdsInput, rapier, stage, applyOrder, panicked>>
    /\ UNCHANGED ballVars

CreatedEvent(p) == [command |-> "Created", position |-> p]

ScaledEvent == [command |-> "Scaled"]

MoveEvent(e, p) == [command |-> "Move", entity |-> e, start |-> p]

RotateEvent(e, p) == [command |-> "Rotate", entity |-> e, start |-> p]

\* mutant: a click on the centre sends a Rotate after the Move
HoverClickEvents_MoveAndRotate(e) ==
    IF ents[e].hover = "Center" THEN <<MoveEvent(e, mouse), RotateEvent(e, mouse)>>
    ELSE IF ents[e].hover = "Edge" THEN <<RotateEvent(e, mouse)>>
    ELSE <<>>

\* mutant: a corner starts a move as well
HoverClickEvents_CornerMoves(e) ==
    IF ents[e].hover \in {"Center", "Corner"} THEN <<MoveEvent(e, mouse)>>
    ELSE IF ents[e].hover = "Edge" THEN <<RotateEvent(e, mouse)>>
    ELSE <<>>

HoverClickEvents(e) ==
    IF ents[e].hover = "Center" THEN <<MoveEvent(e, mouse)>>
    ELSE IF ents[e].hover = "Edge" THEN <<RotateEvent(e, mouse)>>
    ELSE <<>>

\* the events one left click sends
LeftClickEvents ==
    CASE mode = "Default" ->
            Concat([i \in 1..Cardinality(DOMAIN ents) |->
                      HoverClickEvents(SeqOfSet(DOMAIN ents)[i])])
      [] mode = "Create" -> <<CreatedEvent(mouse)>>
      [] mode = "Modify" -> <<ScaledEvent>>

handle_left_click ==
    /\ CanRun("handle_left_click")
    /\ \E just_pressed \in BOOLEAN :
          /\ just_pressed => commandEventCount + Len(LeftClickEvents) <= MaxCommandEvents
          /\ leftPressed' = just_pressed
          /\ commandEvents' = IF just_pressed THEN commandEvents \o LeftClickEvents
                              ELSE commandEvents
          /\ commandEventCount' = IF just_pressed
                                  THEN commandEventCount + Len(LeftClickEvents)
                                  ELSE commandEventCount
    /\ ran' = ran \cup {"handle_left_click"}
    /\ UNCHANGED <<mode, zCounter, mouse, ents, nextId, toolEvents, toolRead,
                   commandRead, cmdsTool, cmdsCommand, cmdsInput, rapier, stage,
                   applyOrder, panicked>>
    /\ UNCHANGED ballVars

\* add_enabled_ui(*mode == Mode::Default, ..): a disabled button is never clicked
update_ui ==
    /\ CanRun("update_ui")
    /\ \E clicked \in Tool \cup {"None"} :
          toolEvents' = IF clicked # "None" /\ mode = "Default" /\ SpawnBudget >= 1
                        THEN Append(toolEvents, clicked)
                        ELSE toolEvents
    /\ ran' = ran \cup {"update_ui"}
    /\ UNCHANGED <<mode, zCounter, mouse, ents, nextId, toolRead, commandEvents,
                   commandRead, commandEventCount, leftPressed, cmdsTool, cmdsCommand,
                   cmdsInput, rapier, stage, applyOrder, panicked>>
    /\ UNCHANGED ballVars

\* mutant: the tool handler does not look at the Mode
ToolEventCmds_AnyMode(k) ==
    <<SpawnCmd(nextId + k - 1, UnreadToolEvents[k], zCounter + k - 1), InsertModeCmd("Create")>>

\* mutant: the counter is read once for all the events of the frame
ToolEventCmds_SameZ(k) ==
    IF mode = "Default"
    THEN <<SpawnCmd(nextId + k - 1, UnreadToolEvents[k], zCounter), InsertModeCmd("Create")>>
    ELSE <<>>

\* the commands handle_tool_events queues for the k-th pending event
ToolEventCmds(k) ==
    IF mode = "Default"
    THEN <<SpawnCmd(nextId + k - 1, UnreadToolEvents[k], zCounter + k - 1), InsertModeCmd("Create")>>
    ELSE <<>>

handle_tool_events ==
    /\ CanRun("handle_tool_events")
    /\ cmdsTool' = cmdsTool \o Concat([k \in 1..Len(UnreadToolEvents) |-> ToolEventCmds(k)])
    /\ zCounter' = IF mode = "Default" THEN zCounter + Len(UnreadToolEvents) ELSE zCounter
    /\ nextId' = IF mode = "Default" THEN nextId + Len(UnreadToolEvents) ELSE nextId
    /\ toolRead' = Len(toolEvents)
    /\ ran' = ran \cup {"handle_tool_events"}
    /\ UNCHANGED <<mode, mouse, ents, toolEvents, commandEvents, commandRead,
                   commandEventCount, leftPressed, cmdsCommand, cmdsInput, rapier, stage,
                   applyOrder, panicked>>
    /\ UNCHANGED ballVars

\* mutant: the commit forgets the collider
CommitCmds_NoCollider(e) ==
    <<RemoveModifyingCmd(e), InsertCmd(e, "Velocity"), InsertCmd(e, "RigidBody")>>

\* mutant: the commit forgets the rigid body
CommitCmds_NoBody(e) ==
    <<RemoveModifyingCmd(e), InsertCmd(e, "Velocity"), InsertCmd(e, "Collider")>>

CommitCmds(e) ==
    <<RemoveModifyingCmd(e), InsertCmd(e, "Velocity"), InsertCmd(e, "Collider"),
      InsertCmd(e, "RigidBody")>>
    \o (IF ents[e].solid = "ForceField" THEN <<InsertCmd(e, "Sensor")>> ELSE <<>>)

\* mutant: Move does not switch the Mode
CommandEventCmds_MoveKeepsMode(ev) ==
    CASE ev.command = "Created" ->
            [i \in 1..Cardinality(ModifyingQuery) |->
                InsertModifyingCmd(SeqOfSet(ModifyingQuery)[i], Scaling(ev.position))]
            \o <<InsertModeCmd("Modify")>>
      [] ev.command = "Scaled" ->
            Concat([i \in 1..Cardinality(ModifyingQuery) |->
                       CommitCmds(SeqOfSet(ModifyingQuery)[i])])
            \o <<InsertModeCmd("Default")>>
      [] ev.command = "Move" ->
            <<InsertModifyingCmd(ev.entity, Moving(ev.start))>>
      [] ev.command = "Rotate" ->
            <<InsertModifyingCmd(ev.entity, Rotating(ev.start)), InsertModeCmd("Modify")>>

\* the commands handle_command_events queues for one event
CommandEventCmds(ev) ==
    CASE ev.command = "Created" ->
            [i \in 1..Cardinality(ModifyingQuery) |->
                InsertModifyingCmd(SeqOfSet(ModifyingQuery)[i], Scaling(ev.position))]
            \o <<InsertModeCmd("Modify")>>
      [] ev.command = "Scaled" ->
            Concat([i \in 1..Cardinality(ModifyingQuery) |->
                       CommitCmds(SeqOfSet(ModifyingQuery)[i])])
            \o <<InsertModeCmd("Default")>>
      [] ev.command = "Move" ->
            <<InsertModifyingCmd(ev.entity, Moving(ev.start)), InsertModeCmd("Modify")>>
      [] ev.command = "Rotate" ->
            <<InsertModifyingCmd(ev.entity, Rotating(ev.start)), InsertModeCmd("Modify")>>

\* commands.entity(entity) panics when the entity does not exist
EntityCommandsPanics(ev) ==
    ev.command \in {"Move", "Rotate"} /\ ev.entity \notin DOMAIN ents

handle_command_events ==
    /\ CanRun("handle_command_events")
    /\ IF \E k \in 1..Len(UnreadCommandEvents) : EntityCommandsPanics(UnreadCommandEvents[k])
       THEN /\ panicked' = TRUE
            /\ UNCHANGED <<cmdsCommand, commandRead, ran>>
       ELSE /\ cmdsCommand' = cmdsCommand \o
                   Concat([k \in 1..Len(UnreadCommandEvents) |->
                              CommandEventCmds(UnreadCommandEvents[k])])
            /\ commandRead' = Len(commandEvents)
            /\ ran' = ran \cup {"handle_command_events"}
            /\ UNCHANGED panicked
    /\ UNCHANGED <<mode, zCounter, mouse, ents, nextId, toolEvents, toolRead,
                   commandEvents, commandEventCount, leftPressed, cmdsTool, cmdsInput,
                   rapier, stage, applyOrder>>
    /\ UNCHANGED ballVars

\* mutant: only the x coordinate follows the pointer
MoveToMouse_XOnly(ent) ==
    IF ent.modifying.tag = "Placing"
    THEN [ent EXCEPT !.transform.pos = <<mouse[1], ent.transform.pos[2]>>]
    ELSE ent

\* if let Modifying::Placing: translation.x/y = mouse.position.x/y
MoveToMouse(ent) ==
    IF ent.modifying.tag = "Placing"
    THEN [ent EXCEPT !.transform.pos = mouse]
    ELSE ent

move_to_mouse ==
    /\ CanRun("move_to_mouse")
    /\ ents' = [e \in DOMAIN ents |-> MoveToMouse(ents[e])]
    /\ ran' = ran \cup {"move_to_mouse"}
    /\ UNCHANGED <<mode, zCounter, mouse, nextId, toolEvents, toolRead, commandEvents,
                   commandRead, commandEventCount, leftPressed, cmdsTool, cmdsCommand,
                   cmdsInput, rapier, stage, applyOrder, panicked>>
    /\ UNCHANGED ballVars

\* velocity.linvel = (mouse.position - translation) * 10.
Gain == 10

MoveTowardsMouse(ent) ==
    IF ent.modifying.tag = "Moving" /\ ent.body # "None"
    THEN [ent EXCEPT !.vel = <<(mouse[1] - ent.gt.pos[1]) * Gain,
                               (mouse[2] - ent.gt.pos[2]) * Gain>>]
    ELSE ent

move_towards_mouse ==
    /\ CanRun("move_towards_mouse")
    /\ ents' = [e \in DOMAIN ents |-> MoveTowardsMouse(ents[e])]
    /\ ran' = ran \cup {"move_towards_mouse"}
    /\ UNCHANGED <<mode, zCounter, mouse, nextId, toolEvents, toolRead, commandEvents,
                   commandRead, commandEventCount, leftPressed, cmdsTool, cmdsCommand,
                   cmdsInput, rapier, stage, applyOrder, panicked>>
    /\ UNCHANGED ballVars

ScaledCenter(position, start) ==
    <<(position[1] + start[1]) \div 2, (position[2] + start[2]) \div 2>>

\* mutant: the distance to the centre is not doubled
ScaledScale_HalfExtent(position, center) ==
    <<Abs(position[1] - center[1]), Abs(position[2] - center[2])>>

ScaledScale(position, center) ==
    <<Abs((position[1] - center[1]) * 2), Abs((position[2] - center[2]) * 2)>>

ScaleEntity(ent) ==
    IF ent.modifying.tag = "Scaling"
    THEN [ent EXCEPT !.transform.pos = ScaledCenter(mouse, ent.modifying.start),
                     !.transform.scale =
                         ScaledScale(mouse, ScaledCenter(mouse, ent.modifying.start))]
    ELSE ent

scale ==
    /\ CanRun("scale")
    /\ ents' = [e \in DOMAIN ents |-> ScaleEntity(ents[e])]
    /\ ran' = ran \cup {"scale"}
    /\ UNCHANGED <<mode, zCounter, mouse, nextId, toolEvents, toolRead, commandEvents,
                   commandRead, commandEventCount, leftPressed, cmdsTool, cmdsCommand,
                   cmdsInput, rapier, stage, applyOrder, panicked>>
    /\ UNCHANGED ballVars

\* the local +X axis points from the entity towards the pointer; the zero
\* vector stands for the NaN rotation of a pointer on the entity's position
RotateEntity(ent) ==
    IF ent.modifying.tag = "Rotating"
    THEN [ent EXCEPT !.transform.rot = Sub(mouse, ent.transform.pos)]
    ELSE ent

rotate ==
    /\ CanRun("rotate")
    /\ ents' = [e \in DOMAIN ents |-> RotateEntity(ents[e])]
    /\ ran' = ran \cup {"rotate"}
    /\ UNCHANGED <<mode, zCounter, mouse, nextId, toolEvents, toolRead, commandEvents,
                   commandRead, commandEventCount, leftPressed, cmdsTool, cmdsCommand,
                   cmdsInput, rapier, stage, applyOrder, panicked>>
    /\ UNCHANGED ballVars

\* the order in which the schedule applies the two systems' command queues
UpdateCmds ==
    IF applyOrder = "tool_first" THEN cmdsTool \o cmdsCommand ELSE cmdsCommand \o cmdsTool

\* apply_deferred at the end of Update
apply_deferred_update ==
    /\ ~panicked
    /\ stage = "Update"
    /\ ran = UpdateSystems
    /\ ents' = ApplyCmds(World, UpdateCmds).ents
    /\ mode' = ApplyCmds(World, UpdateCmds).mode
    /\ panicked' = ApplyCmds(World, UpdateCmds).panicked
    /\ cmdsTool' = <<>>
    /\ cmdsCommand' = <<>>
    /\ stage' = "PostUpdate"
    /\ ran' = {}
    /\ UNCHANGED <<zCounter, mouse, nextId, toolEvents, toolRead, commandEvents,
                   commandRead, commandEventCount, leftPressed, cmdsInput, rapier,
                   applyOrder>>
    /\ UNCHANGED ballVars

----------------------------------------------------------------------------
(* PostUpdate systems *)

\* a kinematic velocity-based body advances by velocity * dt, dt = step / Gain
Integrate(ent, step) ==
    IF ent.body = "None" THEN ent
    ELSE [ent EXCEPT !.transform.pos = <<ent.transform.pos[1] + (ent.vel[1] \div Gain) * step,
                                         ent.transform.pos[2] + (ent.vel[2] \div Gain) * step>>]

\* the physics plugin's step, then transform propagation
physics ==
    /\ CanRunPost("physics")
    /\ \E step \in {0, 1} :
          ents' = [e \in DOMAIN ents |->
                     [Integrate(ents[e], step) EXCEPT !.gt = Integrate(ents[e], step).transform]]
    /\ rapier' = {e \in DOMAIN ents : ents[e].collider}
    /\ ran' = ran \cup {"physics"}
    /\ UNCHANGED <<mode, zCounter, mouse, nextId, toolEvents, toolRead, commandEvents,
                   commandRead, commandEventCount, leftPressed, cmdsTool, cmdsCommand,
                   cmdsInput, stage, applyOrder, panicked>>
    /\ UNCHANGED ballVars

\* mutant: Escape despawns every shape
EscapeCmds_DespawnAll ==
    [i \in 1..Cardinality(DOMAIN ents) |-> DespawnCmd(SeqOfSet(DOMAIN ents)[i])]
    \o <<InsertModeCmd("Default")>>

\* mutant: Escape despawns but leaves the Mode
EscapeCmds_KeepsMode ==
    [i \in 1..Cardinality(ModifyingQuery) |-> DespawnCmd(SeqOfSet(ModifyingQuery)[i])]

EscapeCmds ==
    [i \in 1..Cardinality(ModifyingQuery) |-> DespawnCmd(SeqOfSet(ModifyingQuery)[i])]
    \o <<InsertModeCmd("Default")>>

\* the tool events sent for the pressed keys, in Tool::iter() order
KeyToolEvents(pressed) ==
    Concat([k \in 1..Len(ToolOrder) |->
              IF ToolOrder[k] \in pressed THEN <<ToolOrder[k]>> ELSE <<>>])

handle_input ==
    /\ CanRunPost("handle_input")
    /\ \E escape \in BOOLEAN, pressed \in SUBSET Tool :
          /\ Cardinality(pressed) <= SpawnBudget
          /\ cmdsInput' = IF escape THEN cmdsInput \o EscapeCmds ELSE cmdsInput
          /\ toolEvents' = toolEvents \o KeyToolEvents(pressed)
    /\ ran' = ran \cup {"handle_input"}
    /\ UNCHANGED <<mode, zCounter, mouse, ents, nextId, toolRead, commandEvents,
                   commandRead, commandEventCount, leftPressed, cmdsTool, cmdsCommand,
                   rapier, stage, applyOrder, panicked>>
    /\ UNCHANGED ballVars

\* apply_deferred at the end of PostUpdate; the next frame begins
apply_deferred_post_update ==
    /\ ~panicked
    /\ stage = "PostUpdate"
    /\ ran = PostUpdateSystems
    /\ ents' = ApplyCmds(World, cmdsInput).ents
    /\ mode' = ApplyCmds(World, cmdsInput).mode
    /\ panicked' = ApplyCmds(World, cmdsInput).panicked
    /\ cmdsInput' = <<>>
    /\ toolEvents' = UnreadToolEvents
    /\ toolRead' = 0
    /\ commandEvents' = UnreadCommandEvents
    /\ commandRead' = 0
    /\ leftPressed' = FALSE
    /\ stage' = "Update"
    /\ ran' = {}
    /\ UNCHANGED <<zCounter, mouse, nextId, commandEventCount, cmdsTool, cmdsCommand,
                   rapier, applyOrder>>
    /\ UNCHANGED ballVars

----------------------------------------------------------------------------

Init ==
    /\ mode = "Default"
    /\ zCounter = 0
    /\ mouse = <<0, 0>>
    /\ ents = [e \in {} |-> NoModifying]
    /\ nextId = 1
    /\ toolEvents = <<>>
    /\ toolRead = 0
    /\ commandEvents = <<>>
    /\ commandRead = 0
    /\ leftPressed = FALSE
    /\ cmdsTool = <<>>
    /\ cmdsCommand = <<>>
    /\ cmdsInput = <<>>
    /\ rapier = {}
    /\ stage = "Update"
    /\ ran = {}
    /\ applyOrder \in {"tool_first", "command_first"}
    /\ panicked = FALSE
    /\ commandEventCount = 0
    /\ balls = [b \in {} |-> <<0, 0>>]
    /\ nextBall = 1
    /\ cmdsBalls = <<>>
    /\ cmdsSweep = <<>>

Next ==
    \/ calculate_mouse_position
    \/ set_hover
    \/ handle_left_click
    \/ update_ui
    \/ handle_tool_events
    \/ handle_command_events
    \/ move_to_mouse
    \/ move_towards_mouse
    \/ scale
    \/ rotate
    \/ apply_deferred_update
    \/ physics
    \/ handle_input
    \/ apply_deferred_post_update

Spec == Init /\ [][Next]_vars

----------------------------------------------------------------------------
(* The arithmetic of scale and set_hover on a wider range of inputs: the   *)
(* Update of a frame in Mode=Modify has reached scale and set_hover, with a *)
(* committed box of 200 x 100 at the origin (turned one of three ways) and a *)
(* second shape being drawn from `start`, the pointer anywhere on a grid.   *)

\* pointer coordinates, even so that midpoints are integers: 0.1, 0.44,
\* 0.45, 0.48 and 0.5 of the box's width (200) and of its height (100)
GeomCoords == {-96, -88, 0, 10, 20, 44, 46, 48, 50, 88, 90, 96, 100, 140}

GeomPoints == GeomCoords \X GeomCoords

GeomStarts == {<<100, 50>>, <<0, 0>>, <<-96, 20>>}

\* no turn, a quarter turn, and the turn that takes <<1,0>> to <<3,4>>/5
GeomRots == {<<1, 0>>, <<0, 1>>, <<3, 4>>}

GeomBoxTransform(rot) == [pos |-> <<0, 0>>, scale |-> <<200, 100>>, rot |-> rot]

\* the committed box, as handle_command_events' Scaled leaves it
GeomBox(rot) ==
    [NewEntity("Box", 0) EXCEPT !.modifying = NoModifying,
                                !.transform = GeomBoxTransform(rot),
                                !.gt = GeomBoxTransform(rot),
                                !.collider = TRUE,
                                !.body = "KinematicVelocityBased"]

\* the shape being drawn, as handle_command_events' Created leaves it
GeomDrawn(start) ==
    [NewEntity("Box", 1) EXCEPT !.modifying = Scaling(start),
                                !.transform.pos = start,
                                !.gt = [SpawnTransform EXCEPT !.pos = start]]

InitGeometry ==
    /\ mode = "Modify"
    /\ zCounter = 2
    /\ mouse \in GeomPoints
    /\ \E rot \in GeomRots, start \in GeomStarts :
          ents = [e \in {1, 2} |-> IF e = 1 THEN GeomBox(rot) ELSE GeomDrawn(start)]
    /\ nextId = 3
    /\ toolEvents = <<>>
    /\ toolRead = 0
    /\ commandEvents = <<>>
    /\ commandRead = 0
    /\ leftPressed = FALSE
    /\ cmdsTool = <<>>
    /\ cmdsCommand = <<>>
    /\ cmdsInput = <<>>
    /\ rapier = {1}
    /\ stage = "Update"
    /\ ran = {"update_ui", "handle_tool_events", "calculate_mouse_position", "rotate"}
    /\ applyOrder \in {"tool_first", "command_first"}
    /\ panicked = FALSE
    /\ commandEventCount = 2
    /\ balls = [b \in {} |-> <<0, 0>>]
    /\ nextBall = 1
    /\ cmdsBalls = <<>>
    /\ cmdsSweep = <<>>

NextGeometry ==
    \/ scale
    \/ set_hover

SpecGeometry == InitGeometry /\ [][NextGeometry]_vars

----------------------------------------------------------------------------
(* The particle systems (src/src/balls.rs): spawn_balls in Update, the      *)
(* physics step and despawn_outside_world in PostUpdate, in either order,   *)
(* their Commands applied at the end of each schedule.  They share no state *)
(* with the interaction systems but the sweep's query, which also matches   *)
(* the shapes that carry no Modifying; the frames below have no input, so   *)
(* the interaction systems leave the state alone.                           *)

\* total number of particles ever spawned in one run
MaxBalls == 2

\* window.resolution.width() and .height(), in the units of Points: the
\* camera looks at the origin, so the pointer stays within half of each; the
\* window exists in every frame (calculate_mouse_position takes it with
\* single()), so get_single() finds it
WindowWidth == 8

WindowHeight == 8

\* height * 0.5 + 100.: the particles appear above the visible area
SpawnMargin == 1

\* the coordinates a particle is sampled at: beyond, on and inside the
\* window's width and height, and just beyond half of them
BallCoords == {-9, -8, -5, 0, 5, 8, 9}

\* width * (random::<f32>() - 0.5) on that grid
SpawnXs == {x \in BallCoords : -WindowWidth <= 2 * x /\ 2 * x < WindowWidth}

SpawnPosition(x) == <<x, WindowHeight \div 2 + SpawnMargin>>

\* a Dynamic body moves at most to the next sampled coordinate in one step
Near(c) == {d \in BallCoords : \A m \in BallCoords : ~(c < m /\ m < d) /\ ~(d < m /\ m < c)}

SpawnBallCmd(b, pos) == [op |-> "SpawnBall", entity |-> b, pos |-> pos]

DespawnBallCmd(b) == [op |-> "DespawnBall", entity |-> b]

ApplyBallCmd(bs, c) ==
    CASE c.op = "SpawnBall" ->
            [b \in DOMAIN bs \cup {c.entity} |-> IF b = c.entity THEN c.pos ELSE bs[b]]
      [] c.op = "DespawnBall" -> [b \in DOMAIN bs \ {c.entity} |-> bs[b]]
      [] OTHER -> bs

RECURSIVE ApplyBallCmds(_, _)
ApplyBallCmds(bs, cs) ==
    IF cs = <<>> THEN bs ELSE ApplyBallCmds(ApplyBallCmd(bs, Head(cs)), Tail(cs))

\* .run_if(on_timer(..)): the system runs in the frames in which the timer ticked
spawn_balls ==
    /\ ~panicked
    /\ stage = "Update"
    /\ "spawn_balls" \notin ran
    /\ \E ticked \in BOOLEAN, x \in SpawnXs :
          IF ticked /\ nextBall <= MaxBalls
          THEN /\ cmdsBalls' = Append(cmdsBalls, SpawnBallCmd(nextBall, SpawnPosition(x)))
               /\ nextBall' = nextBall + 1
          ELSE UNCHANGED <<cmdsBalls, nextBall>>
    /\ ran' = ran \cup {"spawn_balls"}
    /\ UNCHANGED <<ents, stage, panicked, balls, cmdsSweep>>
    /\ UNCHANGED toolVars

\* apply_deferred at the end of Update, as the particle systems see it
apply_deferred_update_balls ==
    /\ ~panicked
    /\ stage = "Update"
    /\ "spawn_balls" \in ran
    /\ balls' = ApplyBallCmds(balls, cmdsBalls)
    /\ cmdsBalls' = <<>>
    /\ stage' = "PostUpdate"
    /\ ran' = {}
    /\ UNCHANGED <<ents, panicked, nextBall, cmdsSweep>>
    /\ UNCHANGED toolVars

\* the physics step on the Dynamic bodies: gravity and collisions move each
\* particle somewhere near
RECURSIVE Moved(_)
Moved(bs) ==
    IF bs = {} THEN {[b \in {} |-> <<0, 0>>]}
    ELSE {[b \in bs |-> IF b = MinOf(bs) THEN pos ELSE rest[b]] :
             pos \in Near(balls[MinOf(bs)][1]) \X Near(balls[MinOf(bs)][2]),
             rest \in Moved(bs \ {MinOf(bs)})}

physics_balls ==
    /\ CanRunPost("physics")
    /\ \E moved \in Moved(DOMAIN balls) : balls' = moved
    /\ ran' = ran \cup {"physics"}
    /\ UNCHANGED <<ents, stage, panicked, nextBall, cmdsBalls, cmdsSweep>>
    /\ UNCHANGED toolVars

\* mutant: nothing is removed above the window, where the particles appear
OutsideWorld_NoTop(pos) ==
    \/ pos[2] < -WindowHeight
    \/ pos[1] < -WindowWidth
    \/ pos[1] > WindowWidth

\* the four comparisons with window.resolution
OutsideWorld(pos) ==
    \/ pos[2] < -WindowHeight
    \/ pos[1] < -WindowWidth
    \/ pos[1] > WindowWidth
    \/ pos[2] > WindowHeight

\* Query<(Entity, &Transform), Without<Modifying>>: the shapes it matches
SweptShapes == {e \in DOMAIN ents : ~HasModifying(e) /\ OutsideWorld(ents[e].transform.pos)}

SweptBalls == {b \in DOMAIN balls : OutsideWorld(balls[b])}

SweepCmds ==
    [i \in 1..Cardinality(SweptShapes) |-> DespawnCmd(SeqOfSet(SweptShapes)[i])]
    \o [i \in 1..Cardinality(SweptBalls) |-> DespawnBallCmd(SeqOfSet(SweptBalls)[i])]

despawn_outside_world ==
    /\ CanRunPost("despawn_outside_world")
    /\ cmdsSweep' = cmdsSweep \o SweepCmds
    /\ ran' = ran \cup {"despawn_outside_world"}
    /\ UNCHANGED <<ents, stage, panicked, balls, nextBall, cmdsBalls>>
    /\ UNCHANGED toolVars

\* apply_deferred at the end of PostUpdate, as the particle systems see it
apply_deferred_post_update_balls ==
    /\ ~panicked
    /\ stage = "PostUpdate"
    /\ ran = {"physics", "despawn_outside_world"}
    /\ ents' = ApplyCmds(World, SelectSeq(cmdsSweep, LAMBDA c : c.op = "Despawn")).ents
    /\ balls' = ApplyBallCmds(balls, cmdsSweep)
    /\ cmdsSweep' = <<>>
    /\ stage' = "Update"
    /\ ran' = {}
    /\ UNCHANGED <<panicked, nextBall, cmdsBalls>>
    /\ UNCHANGED toolVars

\* a box drawn from <<0,0>> to <<4,2>> and committed
DrawnBox ==
    [NewEntity("Box", 0) EXCEPT !.modifying = NoModifying,
                                !.transform = [pos |-> <<2, 1>>, scale |-> <<4, 2>>,
                                               rot |-> IdentityRot],
                                !.gt = [pos |-> <<2, 1>>, scale |-> <<4, 2>>,
                                        rot |-> IdentityRot],
                                !.collider = TRUE,
                                !.body = "KinematicVelocityBased"]

\* no particle yet; no shape, or the committed box
InitBalls ==
    /\ mode = "Default"
    /\ mouse = <<0, 0>>
    /\ \E shapes \in {0, 1} :
          /\ ents = [e \in 1..shapes |-> DrawnBox]
          /\ zCounter = shapes
          /\ nextId = shapes + 1
          /\ rapier = 1..shapes
          /\ commandEventCount = 2 * shapes
    /\ toolEvents = <<>>
    /\ toolRead = 0
    /\ commandEvents = <<>>
    /\ commandRead = 0
    /\ leftPressed = FALSE
    /\ cmdsTool = <<>>
    /\ cmdsCommand = <<>>
    /\ cmdsInput = <<>>
    /\ stage = "Update"
    /\ ran = {}
    /\ applyOrder \in {"tool_first", "command_first"}
    /\ panicked = FALSE
    /\ balls = [b \in {} |-> <<0, 0>>]
    /\ nextBall = 1
    /\ cmdsBalls = <<>>
    /\ cmdsSweep = <<>>

NextBalls ==
    \/ spawn_balls
    \/ apply_deferred_update_balls
    \/ physics_balls
    \/ despawn_outside_world
    \/ apply_deferred_post_update_balls

SpecBalls == InitBalls /\ [][NextBalls]_vars

----------------------------------------------------------------------------
(* Vocabulary of the properties *)

\* the events the handlers have read in the current frame
HandledToolEvents == SubSeq(toolEvents, 1, toolRead)

HandledCommandEvents == SubSeq(commandEvents, 1, commandRead)

\* the step that applies the commands queued during Update / PostUpdate
UpdateFlush == stage = "Update" /\ stage' = "PostUpdate"

PostUpdateFlush == stage = "PostUpdate" /\ stage' = "Update"

\* the step in which the named system runs
Runs(sys) == sys \notin ran /\ sys \in ran'

PlacingEntities == {e \in DOMAIN ents : ents[e].modifying = Placing}

Hovered == {e \in DOMAIN ents : ents[e].hover # "None"}

----------------------------------------------------------------------------
(* C1: creation path *)

\* the frame handles one tool activation and nothing else, from Mode=Default
\* with no entity Modifying: one new entity, Placing, no collider, Mode=Create
C1_Activation ==
    (/\ UpdateFlush
     /\ Len(HandledToolEvents) = 1
     /\ HandledCommandEvents = <<>>
     /\ mode = "Default"
     /\ ModifyingQuery = {})
    => \E e \in DOMAIN ents' \ DOMAIN ents :
          /\ DOMAIN ents' = DOMAIN ents \cup {e}
          /\ ents'[e].modifying = Placing
          /\ ents'[e].solid = HandledToolEvents[1]
          /\ ~ents'[e].collider
          /\ \A o \in DOMAIN ents : ents'[o] = ents[o]
          /\ mode' = "Create"

\* once move_to_mouse has run in a frame, a Placing entity is at the pointer
C1_PlacingFollowsPointer ==
    (stage = "Update" /\ "move_to_mouse" \in ran)
    => \A e \in PlacingEntities : ents[e].transform.pos = mouse

\* a click in Mode=Create sends Created with the pointer position, a click in
\* Mode=Modify sends Scaled
C1_Clicks ==
    (Runs("handle_left_click") /\ leftPressed')
    => /\ mode = "Create" => commandEvents' = Append(commandEvents, CreatedEvent(mouse))
       /\ mode = "Modify" => commandEvents' = Append(commandEvents, ScaledEvent)

\* the frame handles the first click alone: Scaling from the clicked position,
\* still no collider, Mode=Modify
C1_FirstClick ==
    (/\ UpdateFlush
     /\ Len(HandledCommandEvents) = 1
     /\ HandledCommandEvents[1].command = "Created"
     /\ mode = "Create"
     /\ Cardinality(ModifyingQuery) = 1
     /\ ModifyingQuery = PlacingEntities)
    => \A e \in ModifyingQuery :
          /\ ents'[e].modifying = Scaling(HandledCommandEvents[1].position)
          /\ ~ents'[e].collider
          /\ mode' = "Modify"

\* the frame handles the second click alone: committed
C1_SecondClick ==
    (/\ UpdateFlush
     /\ HandledCommandEvents = <<ScaledEvent>>
     /\ mode = "Modify"
     /\ Cardinality(ModifyingQuery) = 1
     /\ \A e \in ModifyingQuery : ents[e].modifying.tag = "Scaling")
    => \A e \in ModifyingQuery :
          /\ ents'[e].modifying = NoModifying
          /\ ents'[e].collider
          /\ mode' = "Default"

\* C1: from Mode=Default with no entity Modifying, a tool activation and two
\* left clicks, each handled before the next arrives, take the new entity
\* through Placing (at the pointer, no collider, Mode=Create), Scaling from
\* the position of the first click (Mode=Modify) and, on the second click,
\* to committed (no Modifying, a collider, Mode=Default).
C1_CreationPath ==
    /\ []C1_PlacingFollowsPointer
    /\ [][C1_Activation /\ C1_Clicks /\ C1_FirstClick /\ C1_SecondClick]_vars

\* one entity ever spawned, two command events ever sent, and the frame that
\* handled the second of them has left the entity committed
C1_Witness ==
    /\ stage = "PostUpdate"
    /\ nextId = 2
    /\ commandEventCount = 2
    /\ HandledCommandEvents = <<ScaledEvent>>
    /\ mode = "Default"
    /\ \E e \in DOMAIN ents : ents[e].collider /\ ~HasModifying(e)

----------------------------------------------------------------------------
(* C2: collider and Modifying *)

\* C2 as stated: every shape entity has a collider if and only if it carries
\* no Modifying component.
C2_ColliderIffNotModifying ==
    \A e \in DOMAIN ents : ents[e].collider <=> ~HasModifying(e)

\* C2 as amended: every shape entity that carries no Modifying component has
\* a collider and every Placing entity has none; an entity made Moving or
\* Rotating by a click on a committed shape keeps its collider.
C2_ColliderUnlessCreating ==
    \A e \in DOMAIN ents :
       /\ ~HasModifying(e) => ents[e].collider
       /\ ents[e].modifying = Placing => ~ents[e].collider
       /\ ents[e].modifying.tag \in {"Moving", "Rotating"} => ents[e].collider

\* a committed shape has been clicked on and is Moving, collider attached
C2_Witness ==
    \E e \in DOMAIN ents :
       /\ ents[e].modifying.tag \in {"Moving", "Rotating"}
       /\ ents[e].collider
       /\ ents[e].body = "KinematicVelocityBased"

----------------------------------------------------------------------------
(* C3: one entity in creation at a time *)

\* C3: the number of entities whose Modifying is Placing is never greater
\* than 1.
C3_AtMostOnePlacing == Cardinality(PlacingEntities) <= 1

----------------------------------------------------------------------------
(* C4: tool activation outside Mode=Default *)

\* handle_tool_events and the tool buttons do nothing while Mode is not Default
C4_ToolStep ==
    /\ (Runs("handle_tool_events") /\ mode # "Default")
          => cmdsTool' = cmdsTool /\ zCounter' = zCounter /\ nextId' = nextId /\ mode' = mode
    /\ (Runs("update_ui") /\ mode # "Default") => toolEvents' = toolEvents

\* so the frame's commands spawn nothing on behalf of a tool event
C4_FlushStep ==
    (UpdateFlush /\ mode # "Default")
    => /\ cmdsTool = <<>>
       /\ DOMAIN ents' = DOMAIN ents
       /\ (cmdsCommand = <<>> => mode' = mode)

\* C4: a tool-activation event handled while Mode is Create or Modify spawns
\* no entity, does not advance the z-order counter and leaves Mode unchanged.
C4_ToolIgnoredOutsideDefault == [][C4_ToolStep /\ C4_FlushStep]_vars

\* handle_tool_events has read a tool event while Mode is not Default
C4_Witness ==
    /\ stage = "Update"
    /\ "handle_tool_events" \in ran
    /\ toolRead > 0
    /\ mode # "Default"

----------------------------------------------------------------------------
(* C5, C6: cancellation *)

\* Escape was pressed in this frame: handle_input has queued its commands
EscapeQueued == stage = "PostUpdate" /\ cmdsInput # <<>>

C5_EscapeStep ==
    (PostUpdateFlush /\ EscapeQueued)
    => /\ DOMAIN ents' = DOMAIN ents \ ModifyingQuery
       /\ \A e \in DOMAIN ents' : ents'[e] = ents[e]
       /\ mode' = "Default"

\* C5: when Escape is handled, in any Mode, exactly the entities that carry a
\* Modifying component are despawned, no other entity is removed or changed,
\* Mode becomes Default, and afterwards no entity carries Modifying.
C5_Cancellation == [][C5_EscapeStep]_vars

\* Escape is about to be applied with one entity Modifying and one not
C5_Witness ==
    /\ EscapeQueued
    /\ ran = PostUpdateSystems
    /\ mode # "Default"
    /\ ModifyingQuery # {}
    /\ DOMAIN ents \ ModifyingQuery # {}

C6_EscapeStep ==
    (PostUpdateFlush /\ EscapeQueued /\ mode = "Default")
    => DOMAIN ents' = DOMAIN ents /\ mode' = "Default"

\* C6: in every reachable state where Mode=Default, handling Escape is a
\* no-op: Mode stays Default and no entity is despawned.
C6_CancelIdempotent == [][C6_EscapeStep]_vars

----------------------------------------------------------------------------
(* C7: hover uniqueness *)

\* C7: the number of entities whose hoverable.position is not None is 0 or 1,
\* in every state and so after every run of set_hover.
C7_HoverUnique == Cardinality(Hovered) <= 1

\* set_hover has run with two colliders under the pointer, next to an entity
\* that has a Hoverable but no collider
C7_Witness ==
    /\ stage = "Update"
    /\ "set_hover" \in ran
    /\ Cardinality(HoverCandidates) >= 2
    /\ Cardinality(Hovered) = 1

----------------------------------------------------------------------------
(* C8: select / edit dispatch *)

\* the events the click of this step sends
NewCommandEvents ==
    {commandEvents'[k] : k \in (Len(commandEvents) + 1)..Len(commandEvents')}

\* a click in Mode=Default sends Move for the entity hovered at its centre,
\* Rotate for the entity hovered at an edge, both from the pointer position,
\* and nothing else
C8_Click ==
    (Runs("handle_left_click") /\ leftPressed' /\ mode = "Default")
    => /\ \A e \in DOMAIN ents :
             /\ ents[e].hover = "Center" => MoveEvent(e, mouse) \in NewCommandEvents
             /\ ents[e].hover = "Edge" => RotateEvent(e, mouse) \in NewCommandEvents
       /\ Len(commandEvents') - Len(commandEvents)
             = Cardinality({e \in DOMAIN ents : ents[e].hover \in {"Center", "Edge"}})
       /\ Len(commandEvents') - Len(commandEvents) <= 1

\* the frame that handles that event alone gives the entity, and no other,
\* Moving / Rotating from the clicked position and sets Mode=Modify
C8_Handled ==
    (/\ UpdateFlush
     /\ Len(HandledCommandEvents) = 1
     /\ HandledCommandEvents[1].command \in {"Move", "Rotate"}
     /\ cmdsTool = <<>>)
    => /\ ents'[HandledCommandEvents[1].entity].modifying =
             (IF HandledCommandEvents[1].command = "Move"
              THEN Moving(HandledCommandEvents[1].start)
              ELSE Rotating(HandledCommandEvents[1].start))
       /\ \A o \in DOMAIN ents \ {HandledCommandEvents[1].entity} : ents'[o] = ents[o]
       /\ DOMAIN ents' = DOMAIN ents
       /\ mode' = "Modify"

\* C8: in Mode=Default a left click while the hovered entity's region is
\* Center gives that entity, and no other, Moving from the pointer position of
\* the click and sets Mode=Modify; while the region is Edge it gives it
\* Rotating from that position and sets Mode=Modify.
C8_SelectDispatch == [][C8_Click /\ C8_Handled]_vars

\* the click on the centre of a committed shape has been handled
C8_Witness ==
    /\ stage = "PostUpdate"
    /\ Len(HandledCommandEvents) = 1
    /\ HandledCommandEvents[1].command = "Move"
    /\ mode = "Modify"
    /\ ents[HandledCommandEvents[1].entity].modifying = Moving(HandledCommandEvents[1].start)
    /\ ents[HandledCommandEvents[1].entity].hover = "Center"

----------------------------------------------------------------------------
(* C9: commit *)

C9_Click ==
    (Runs("handle_left_click") /\ leftPressed' /\ mode = "Modify")
    => commandEvents' = Append(commandEvents, ScaledEvent)

C9_Handled ==
    (/\ UpdateFlush
     /\ HandledCommandEvents # <<>>
     /\ \A k \in 1..Len(HandledCommandEvents) : HandledCommandEvents[k] = ScaledEvent
     /\ mode = "Modify")
    => /\ \A e \in ModifyingQuery :
             /\ ents'[e].modifying = NoModifying
             /\ ents'[e].collider
             /\ ents'[e].body = "KinematicVelocityBased"
       /\ DOMAIN ents' = DOMAIN ents
       /\ mode' = "Default"

\* C9: a left click handled in Mode=Modify removes Modifying from every
\* entity that carries it (Scaling, Moving or Rotating), leaves each of them
\* with a collider and a kinematic body, and sets Mode=Default.
C9_Commit == [][C9_Click /\ C9_Handled]_vars

\* the commit of a Moving or Rotating shape is about to be applied
C9_Witness ==
    /\ stage = "Update"
    /\ ran = UpdateSystems
    /\ HandledCommandEvents = <<ScaledEvent>>
    /\ mode = "Modify"
    /\ \E e \in ModifyingQuery : ents[e].modifying.tag \in {"Moving", "Rotating"}

----------------------------------------------------------------------------
(* C10: click without a target *)

C10_Step ==
    (/\ Runs("handle_left_click")
     /\ leftPressed'
     /\ mode = "Default"
     /\ \A e \in DOMAIN ents : ents[e].hover \in {"None", "Corner"})
    => /\ commandEvents' = commandEvents
       /\ commandEventCount' = commandEventCount
       /\ cmdsCommand' = cmdsCommand
       /\ mode' = "Default"
       /\ ents' = ents

\* C10: in Mode=Default a left click while no entity is hovered, or the
\* hovered region is Corner, emits no command, leaves Mode=Default and gives
\* no entity a Modifying component.
C10_InvalidClickIgnored == [][C10_Step]_vars

\* the click has been read in Mode=Default with a shape hovered at a corner
\* (the hover is the one the click saw: set_hover has not run since)
C10_Witness ==
    /\ stage = "Update"
    /\ "handle_left_click" \in ran
    /\ "set_hover" \notin ran
    /\ leftPressed
    /\ mode = "Default"
    /\ \E e \in DOMAIN ents : ents[e].hover = "Corner"
    /\ UnreadCommandEvents = <<>>

----------------------------------------------------------------------------
(* C11: a command for a despawned entity *)

\* C11: a queued Move or Rotate command that names an entity despawned before
\* the command is handled is skipped and the program does not fail: no state
\* in which a system has panicked is reachable.
C11_NeverFatal == ~panicked

----------------------------------------------------------------------------
(* C12: scale symmetry *)

ScalingEntities == {e \in DOMAIN ents : ents[e].modifying.tag = "Scaling"}

\* after the scale step the centre is the midpoint of start and pointer and
\* the scale is twice the distance from pointer to centre, per axis
C12_Step ==
    Runs("scale")
    => \A e \in ScalingEntities : \A i \in {1, 2} :
          /\ 2 * ents'[e].transform.pos[i] = mouse[i] + ents[e].modifying.start[i]
          /\ ents'[e].transform.scale[i] = 2 * Abs(mouse[i] - ents'[e].transform.pos[i])
          /\ ents'[e].transform.scale[i] = Abs(mouse[i] - ents[e].modifying.start[i])

\* start=(100,50), pointer=(140,90) gives center=(120,70), scale=(80,80)
C12_Example ==
    (Runs("scale") /\ mouse = <<140, 90>>)
    => \A e \in ScalingEntities :
          ents[e].modifying.start = <<100, 50>>
          => /\ ents'[e].transform.pos = <<120, 70>>
             /\ ents'[e].transform.scale = <<80, 80>>

\* the same pair of points: the formula gives scale=(40,40)
C12_ExampleAmended ==
    (Runs("scale") /\ mouse = <<140, 90>>)
    => \A e \in ScalingEntities :
          ents[e].modifying.start = <<100, 50>>
          => /\ ents'[e].transform.pos = <<120, 70>>
             /\ ents'[e].transform.scale = <<40, 40>>

\* C12 as stated: for every entity in Scaling{start=(sx,sy)} and every pointer
\* position (px,py), after the scale step the entity's center is
\* ((px+sx)/2, (py+sy)/2) and its scale is (2*|px-center.x|, 2*|py-center.y|)
\* = (|px-sx|, |py-sy|); start=(100,50), pointer=(140,90) gives
\* center=(120,70), scale=(80,80).
C12_ScaleSymmetry == [][C12_Step /\ C12_Example]_vars

\* C12 as amended: the same center and scale for every start and pointer;
\* start=(100,50), pointer=(140,90) gives center=(120,70), scale=(40,40).
C12_ScaleSymmetryAmended == [][C12_Step /\ C12_ExampleAmended]_vars

\* scale has run on the shape drawn from (100,50) with the pointer at (140,90)
C12_Witness ==
    /\ "scale" \in ran
    /\ mouse = <<140, 90>>
    /\ \E e \in ScalingEntities :
          /\ ents[e].modifying.start = <<100, 50>>
          /\ ents[e].transform.pos = <<120, 70>>
          /\ ents[e].transform.scale = <<40, 40>>

----------------------------------------------------------------------------
(* C13: hover region *)

\* the length of a direction vector whose length is an integer
Norm(v) == CHOOSE n \in 0..(Abs(v[1]) + Abs(v[2])) : n * n = Dot(v, v)

\* |c| < 0.45 for the local coordinate c = n / d
C13_Below(n, d) == 20 * Abs(n) < 9 * Abs(d)

\* the region of the point p in the local frame of g: the local x is the
\* component of p - g.pos along the local +X axis, divided by the x scale
C13_Region(g, p) ==
    LET x == C13_Below(Dot(Sub(p, g.pos), g.rot), Norm(g.rot) * g.scale[1])
        y == C13_Below(Dot(Sub(p, g.pos), Perp(g.rot)), Norm(g.rot) * g.scale[2])
    IN  IF x /\ y THEN "Center" ELSE IF x # y THEN "Edge" ELSE "Corner"

C13_Step ==
    Runs("set_hover")
    => \A e \in DOMAIN ents :
          ents'[e].hover # "None" => ents'[e].hover = C13_Region(ents[e].gt, mouse)

\* local (0.1,0.1) -> Center, (0.1,0.48) -> Edge, (0.48,0.48) -> Corner, on
\* the box of 200 x 100 at the origin
C13_Examples ==
    (Runs("set_hover") /\ ents[1].gt = GeomBoxTransform(IdentityRot))
    => /\ mouse = <<20, 10>> => ents'[1].hover = "Center"
       /\ mouse = <<20, 48>> => ents'[1].hover = "Edge"
       /\ mouse = <<96, 48>> => ents'[1].hover = "Corner"

\* C13: for the selected hover target with the pointer at local coordinates
\* (x,y), the region is Center when |x|<0.45 and |y|<0.45, Edge when exactly
\* one of |x|,|y| is <0.45, and Corner otherwise.
C13_HoverRegion == [][C13_Step /\ C13_Examples]_vars

\* set_hover has classified the pointer at local (0.1,0.48) of the box
C13_Witness ==
    /\ "set_hover" \in ran
    /\ mouse = <<20, 48>>
    /\ \E e \in DOMAIN ents :
          /\ ents[e].gt = GeomBoxTransform(IdentityRot)
          /\ ents[e].hover = "Edge"

----------------------------------------------------------------------------
(* C14: topmost wins *)

C14_Step ==
    (Runs("set_hover") /\ HoverCandidates # {})
    => \E h \in HoverCandidates :
          /\ ents'[h].hover # "None"
          /\ \A o \in HoverCandidates \ {h} : ents[o].z < ents[h].z
          /\ \A o \in ColliderQuery \ {h} : ents'[o].hover = "None"

\* C14: whenever at least one hoverable entity with a collider contains the
\* pointer, the entity that receives a non-None hover position is the one with
\* the highest z-order among those candidates, and every other entity visited
\* by the resolver gets hover position None.
C14_TopmostWins == [][C14_Step]_vars

\* set_hover has chosen between two shapes under the pointer
C14_Witness ==
    /\ stage = "Update"
    /\ "set_hover" \in ran
    /\ \E h \in HoverCandidates, o \in HoverCandidates :
          /\ ents[h].hover # "None"
          /\ ents[o].hover = "None"
          /\ ents[o].z < ents[h].z

----------------------------------------------------------------------------
(* C15: z-order *)

\* the spawn commands handle_tool_events has queued, in order
QueuedSpawns == SelectSeq(cmdsTool, LAMBDA c : c.op = "Spawn")

\* entity ids are reserved in creation order: shapes alive and shapes about
\* to be spawned have z-orders that increase with creation and lie below the
\* counter
C15_Ordered ==
    /\ \A a, b \in DOMAIN ents : a < b => ents[a].z < ents[b].z
    /\ \A e \in DOMAIN ents : ents[e].z < zCounter
    /\ \A k \in 1..Len(QueuedSpawns) :
          /\ QueuedSpawns[k].z < zCounter
          /\ \A e \in DOMAIN ents : ents[e].z < QueuedSpawns[k].z
          /\ \A l \in 1..(k - 1) : QueuedSpawns[l].z < QueuedSpawns[k].z

\* every shape handle_tool_events spawns gets the counter's value, and the
\* counter is then incremented; nothing else moves the counter, so a z-order
\* given once is never given again
C15_Step ==
    /\ zCounter' >= zCounter
    /\ Runs("handle_tool_events")
          => /\ Len(cmdsTool') >= Len(cmdsTool)
             /\ \A k \in (Len(cmdsTool) + 1)..Len(cmdsTool') :
                   cmdsTool'[k].op = "Spawn"
                   => /\ cmdsTool'[k].z >= zCounter
                      /\ cmdsTool'[k].z < zCounter'
                      /\ cmdsTool'[k].z - zCounter
                            = Cardinality({l \in (Len(cmdsTool) + 1)..(k - 1) :
                                             cmdsTool'[l].op = "Spawn"})
             /\ zCounter' - zCounter
                   = Cardinality({k \in (Len(cmdsTool) + 1)..Len(cmdsTool') :
                                    cmdsTool'[k].op = "Spawn"})

\* C15: every shape spawned by a tool activation gets the current counter
\* value as its z-order and the counter is then incremented, so any two shapes
\* ever created have different z-orders and a later-created shape has a
\* strictly higher z-order than an earlier one, also when two shapes are
\* created in the same tick.
C15_ZOrderIncreasing == []C15_Ordered /\ [][C15_Step]_vars

\* two shapes created in the same tick are alive
C15_Witness ==
    /\ stage = "PostUpdate"
    /\ Len(HandledToolEvents) = 2
    /\ \E a, b \in DOMAIN ents :
          /\ ents[a].z + 1 = ents[b].z
          /\ ents[a].modifying = Placing
          /\ ents[b].modifying = Placing
          /\ ents[a].gt = IdentityTransform
          /\ ents[b].gt = IdentityTransform

----------------------------------------------------------------------------
(* C16: bounds despawn *)

\* the particles the check of this step has marked for removal
C16_Marked == {b \in DOMAIN balls :
                  \E k \in (Len(cmdsSweep) + 1)..Len(cmdsSweep') :
                     cmdsSweep'[k] = DespawnBallCmd(b)}

\* the particles marked by the checks of the frame
C16_Queued == {b \in DOMAIN balls :
                  \E k \in 1..Len(cmdsSweep) : cmdsSweep[k] = DespawnBallCmd(b)}

\* the position lies outside [-w,w] x [-h,h]
C16_Outside(pos, w, h) == Abs(pos[1]) > w \/ Abs(pos[2]) > h

\* the check marks exactly the particles outside [-w,w] x [-h,h], and the
\* commands of the frame remove exactly the marked ones
C16_Check(w, h) ==
    /\ Runs("despawn_outside_world")
          => \A b \in DOMAIN balls : b \in C16_Marked <=> C16_Outside(balls[b], w, h)
    /\ PostUpdateFlush
          => DOMAIN balls' = DOMAIN balls \ C16_Queued

----------------------------------------------------------------------------
(* C17: when the cancellation takes effect *)

\* the entities handle_input has queued a despawn for in this tick
Cancelled == {cmdsInput[k].entity : k \in {i \in 1..Len(cmdsInput) : cmdsInput[i].op = "Despawn"}}

\* move_to_mouse, scale or rotate has changed e's Transform in this tick: the
\* GlobalTransform, copied from it at the end of the tick before, differs
TransformedThisTick(e) ==
    /\ stage = "PostUpdate"
    /\ "physics" \notin ran
    /\ ents[e].gt # IdentityTransform
    /\ ents[e].transform # ents[e].gt

C17_Detected ==
    (Runs("handle_input") /\ cmdsInput' # cmdsInput)
    => /\ stage = "PostUpdate"
       /\ ents' = ents
       /\ mode' = mode
       /\ Cancelled' = ModifyingQuery

\* nor during the rest of PostUpdate
C17_Pending ==
    (stage = "PostUpdate" /\ stage' = "PostUpdate")
    => /\ DOMAIN ents' = DOMAIN ents
       /\ mode' = mode
       /\ Cancelled \subseteq Cancelled'
       /\ \A e \in DOMAIN ents : ents'[e].modifying = ents[e].modifying

\* the commands applied at the end of PostUpdate end the tick with the
\* cancelled entities gone and Mode=Default
C17_Applied ==
    (PostUpdateFlush /\ EscapeQueued)
    => /\ Cancelled \cap DOMAIN ents' = {}
       /\ \A e \in DOMAIN ents' : ~HasModifying(e)'
       /\ mode' = "Default"
       /\ ran' = {}

----------------------------------------------------------------------------
(* C18: events at the end of a tick *)

\* a tick has ended and the next has not begun
TickBoundary == stage = "Update" /\ ran = {}

\* a tool event sent by handle_input is left for the tick after
C18_NoToolCarryOver == TickBoundary => toolEvents = <<>>

\* a command event sent after handle_command_events has run is left for the
\* tick after, where it is applied after an Escape of its own tick
C18_NoCommandCarryOver == TickBoundary => commandEvents = <<>>

\* C18: every tool-activation event and every command event emitted during a
\* tick is consumed by its handler within that same tick, so at the end of
\* each tick no tool or command event is pending.
C18_NoCarryOver == C18_NoToolCarryOver /\ C18_NoCommandCarryOver

----------------------------------------------------------------------------
(* C19: order of the phases within a tick *)

\* a click that reads the hover state finds the one set_hover has computed
\* from this tick's pointer position
C19_ClickAfterHover ==
    (Runs("handle_left_click") /\ leftPressed' /\ mode = "Default" /\ Hovered # {})
    => "set_hover" \in ran

\* the events a click emits are still to be handled in this tick
C19_HandlerAfterClick ==
    (Runs("handle_left_click") /\ commandEvents' # commandEvents)
    => "handle_command_events" \notin ran

\* a continuous transform that changes an entity runs after the handlers
C19_TransformsLast ==
    ((Runs("scale") \/ Runs("rotate") \/ Runs("move_to_mouse") \/ Runs("move_towards_mouse"))
        /\ ents' # ents)
    => {"calculate_mouse_position", "handle_tool_events", "handle_command_events"}
          \subseteq ran

\* C19: in every tick the pointer position is updated first, then hover is
\* resolved, then clicks emit events, then the event handlers run, then the
\* continuous transforms apply; in particular a click always acts on the
\* hover state computed from the current tick's pointer position, whatever
\* order the systems happen to be scheduled in.
C19_PhaseOrder ==
    [][C19_ClickAfterHover /\ C19_HandlerAfterClick /\ C19_TransformsLast]_vars

----------------------------------------------------------------------------
(* C20: Default means idle *)

\* C20: at every tick boundary, if Mode is Default then no entity carries a
\* Modifying component.
C20_DefaultMeansIdle ==
    (TickBoundary /\ mode = "Default") => ModifyingQuery = {}


----------------------------------------------------------------------------
(* C21: no empty editing mode *)

InProgress == {e \in DOMAIN ents :
                 ents[e].modifying.tag \in {"Scaling", "Moving", "Rotating"}}

\* C21: at every tick boundary, Mode=Create comes with some entity Placing and
\* Mode=Modify with some entity Scaling, Moving or Rotating.
C21_NoEmptyEditingMode ==
    TickBoundary =>
       /\ mode = "Create" => PlacingEntities # {}
       /\ mode = "Modify" => InProgress # {}


----------------------------------------------------------------------------
(* C22: one click, at most one command *)

\* the command events the step has sent
C22_Sent == SubSeq(commandEvents', Len(commandEvents) + 1, Len(commandEvents'))

\* a click sends Created alone in Create, Scaled alone in Modify, and in
\* Default at most one event, a Move or a Rotate
C22_Step ==
    (Runs("handle_left_click") /\ leftPressed')
    => /\ Len(C22_Sent) <= 1
       /\ mode = "Create" => C22_Sent = <<CreatedEvent(mouse)>>
       /\ mode = "Modify" => C22_Sent = <<ScaledEvent>>
       /\ mode = "Default" =>
             \A i \in 1..Len(C22_Sent) : C22_Sent[i].command \in {"Move", "Rotate"}

\* C22: a single left click emits at most one command event in every Mode:
\* exactly one Created in Create, exactly one Scaled in Modify, and in Default
\* at most one Move or Rotate, never commands for two entities.
C22_OneCommandPerClick == [][C22_Step]_vars

\* a click in Default with two colliders under the pointer has sent its one
\* Move or Rotate: the reader ran before the click and found nothing
C22_Witness ==
    /\ stage = "Update"
    /\ mode = "Default"
    /\ leftPressed
    /\ {"handle_command_events", "handle_left_click"} \subseteq ran
    /\ commandRead = 0
    /\ Len(commandEvents) = 1
    /\ commandEvents[1].command \in {"Move", "Rotate"}
    /\ Cardinality(HoverCandidates) = 2

====
